---- MODULE Spec2Model ----
(***************************************************************************)
(* State-machine model of four parts of sales-agents-whitelabel:           *)
(*                                                                         *)
(*  - the conversation tracker, SwarmOrchestrator                          *)
(*    (src/src/orchestrator/swarm_orchestrator.py) together with the       *)
(*    Conversation model (src/src/models/conversation.py);                 *)
(*  - the cached, retrying CRM client, CRMTool                             *)
(*    (src/src/tools/crm_tool.py) over MockCRMServer                       *)
(*    (src/src/mcp_servers/mock_crm_server.py);                            *)
(*  - the provider registry, MCPServerFactory                              *)
(*    (src/src/utils/mcp_server_factory.py);                               *)
(*  - the tool dispatcher, MCPTools (src/src/agents/mcp_tools.py).         *)
(*                                                                         *)
(* All run on one asyncio event loop: the code between two awaits is one  *)
(* atomic step, and every await that can suspend separates two actions.    *)
(***************************************************************************)
EXTENDS Integers, Sequences, FiniteSets, TLC

(***************************************************************************)
(* Bounds of the model.                                                    *)
(***************************************************************************)
MaxConvs == 1
MaxCalls == 3
MaxTime == 2
MaxToolCalls == 2
MaxToolTime == 3
MaxTTL == 2
MaxFailures == 3
MaxRetryCalls == 1
MaxCacheFailures == 1
MaxGets == 3
MaxDispatchCalls == 2
MaxListCalls == 2
MaxTimedCalls == 4

ConvIds == 1..MaxConvs
CallIds == 1..MaxCalls
NoConv == 0
NoTime == -1

(***************************************************************************)
(* ConversationStage (conversation.py:34-43) and the node ids of the       *)
(* swarm.  "other_agent" stands for any node id the table does not map.    *)
(***************************************************************************)
ConversationStage ==
    {"faq", "lead_generation", "qualification", "presentation",
     "negotiation", "closing", "completed"}

NodeIds ==
    {"researcher", "sales_agent", "qualification_agent", "presentation_agent",
     "negotiation_agent", "closing_agent", "other_agent"}

\* The execution traces (node_history) the pipeline is let to return.
Traces ==
    {<<>>, <<"other_agent">>, <<"researcher", "qualification_agent">>,
     <<"closing_agent">>, <<"closing_agent", "researcher", "closing_agent">>}

\* the table with an entry that leads to completed
stage_mapping_completing(agent) ==
    CASE agent = "researcher" -> "faq"
      [] agent = "sales_agent" -> "qualification"
      [] agent = "qualification_agent" -> "qualification"
      [] agent = "presentation_agent" -> "presentation"
      [] agent = "negotiation_agent" -> "negotiation"
      [] agent = "closing_agent" -> "completed"
      [] OTHER -> "faq"

\* swarm_orchestrator.py:180-189
stage_mapping(agent) ==
    CASE agent = "researcher" -> "faq"
      [] agent = "sales_agent" -> "qualification"
      [] agent = "qualification_agent" -> "qualification"
      [] agent = "presentation_agent" -> "presentation"
      [] agent = "negotiation_agent" -> "negotiation"
      [] agent = "closing_agent" -> "closing"
      [] OTHER -> "faq"

RECURSIVE Dedup(_)
\* swarm_sales_agent.py:421-431: node ids in order of first appearance
Dedup(s) ==
    IF s = <<>> THEN <<>>
    ELSE LET init == Dedup(SubSeq(s, 1, Len(s) - 1))
             last == s[Len(s)]
         IN IF \E i \in 1..Len(init) : init[i] = last
            THEN init ELSE Append(init, last)

\* the first node of the trace taken for the last
LastAgent_first(node_history, agents_used) ==
    IF node_history # <<>> THEN node_history[1]
    ELSE IF agents_used # <<>> THEN agents_used[1]
    ELSE "researcher"

\* swarm_orchestrator.py:171-177
LastAgent(node_history, agents_used) ==
    IF node_history # <<>> THEN node_history[Len(node_history)]
    ELSE IF agents_used # <<>> THEN agents_used[Len(agents_used)]
    ELSE "researcher"

\* the status of the result of SwarmSalesAgent.process
\* (swarm_sales_agent.py:392-395 and 455-461)
PipelineStatus == {"completed", "failed"}

VARIABLES
    now,            \* time.time() / datetime.utcnow()
    conversations,  \* SwarmOrchestrator.conversations
    metrics,        \* SwarmOrchestrator.metrics
    calls,          \* the process_message coroutines
    cache_enabled,  \* CRMTool.cache_enabled
    cache_ttl,      \* CRMTool.cache_ttl
    cache,          \* CRMTool._cache: key -> (result, time stored)
    leads,          \* MockCRMServer._leads
    tcalls,         \* the calls of CRMTool's decorated methods
    failures,       \* how often the provider has raised
    _settings,      \* MCPServerFactory._settings is set
    _instances,     \* MCPServerFactory._instances: cache key -> instance
    created,        \* the provider instances constructed so far
    gcalls,         \* the callers of MCPServerFactory.get_server
    servers,        \* MCPTools.servers: the names of the providers held
    dcalls,         \* the calls of MCPTools.call_tool
    lcalls          \* the calls of MCPTools.list_tools and discover_tools

trackerVars == <<conversations, metrics, calls>>
toolVars == <<cache_enabled, cache_ttl, cache, leads, tcalls, failures>>
registryVars == <<_settings, _instances, created, gcalls>>
dispatchVars == <<servers, dcalls, lcalls>>
hostVars == <<registryVars, dispatchVars>>
vars == <<now, conversations, metrics, calls,
          cache_enabled, cache_ttl, cache, leads, tcalls, failures,
          _settings, _instances, created, gcalls, servers, dcalls, lcalls>>

(***************************************************************************)
(* Conversation and Message (conversation.py).  A message's content is the *)
(* id of the process_message call it belongs to, so that every message is  *)
(* distinguishable.  Conversation.Config sets use_enum_values, so the      *)
(* current_stage given to the constructor is stored as its plain string    *)
(* value; stage_enum tells whether current_stage holds an enum member      *)
(* (after the assignment at swarm_orchestrator.py:195) or the plain        *)
(* string (after construction).                                            *)
(***************************************************************************)
Message(role, content, agent_id) ==
    [role |-> role, content |-> content, agent_id |-> agent_id]

\* add_message assigning the list instead of appending to it
add_message_overwrite(conv, role, content, agent_id) ==
    [conv EXCEPT !.messages = <<Message(role, content, agent_id)>>,
                 !.updated_at = now]

\* conversation.py:61-76
add_message(conv, role, content, agent_id) ==
    [conv EXCEPT !.messages = Append(@, Message(role, content, agent_id)),
                 !.updated_at = now]

\* swarm_orchestrator.py:66-71 and 86-89
NewConversation ==
    [messages |-> <<>>,
     current_stage |-> "faq",
     stage_enum |-> FALSE,
     active_agent |-> "none",
     metadata |-> [sale_closed |-> FALSE,
                   stage_times |-> [s \in ConversationStage |->
                                       IF s = "faq" THEN now ELSE NoTime]],
     created_at |-> now,
     updated_at |-> now]

\* uuid.uuid4() giving an id that may be in use
FreshIds_any == ConvIds

\* uuid.uuid4(): an id no conversation has yet
FreshIds == ConvIds \ DOMAIN conversations
NewId == CHOOSE i \in FreshIds : \A j \in FreshIds : i <= j

Store(convs, id, conv) ==
    [i \in DOMAIN convs \cup {id} |-> IF i = id THEN conv ELSE convs[i]]

\* swarm_orchestrator.py:99-108: an Optional is the set of at most one
\* conversation, None the empty set
get_conversation(conversation_id) ==
    IF conversation_id \in DOMAIN conversations
    THEN {conversations[conversation_id]} ELSE {}

\* swarm_orchestrator.py:50-97; initial_message is a call id or 0 for None
CreatedConversation(initial_message) ==
    IF initial_message # 0
    THEN add_message(NewConversation, "user", initial_message, "none")
    ELSE NewConversation

\* swarm_orchestrator.py:81-83
CreatedMetrics ==
    [metrics EXCEPT !.conversations_total = @ + 1,
                    !.conversations_by_stage["faq"] = @ + 1]

\* swarm_orchestrator.py:36-46
InitMetrics ==
    [conversations_total |-> 0,
     conversations_by_stage |-> [s \in ConversationStage |-> 0],
     stage_transitions |-> [t \in ConversationStage \X ConversationStage |-> 0],
     agents_usage |-> [a \in NodeIds |-> 0],
     conversion_by_stage |-> [s \in ConversationStage |-> 0],
     time_by_stage |-> [s \in ConversationStage |-> <<>>],
     completed_conversations |-> 0,
     closed_sales |-> 0]

IdleCall ==
    [pc |-> "idle", conv |-> NoConv, given |-> FALSE, old_stage |-> "faq",
     old_enum |-> FALSE, process_start_time |-> NoTime,
     result |-> "none", stage |-> "none", status |-> "none"]

\* call ids are handed out in the order the calls are made
InOrder(c) == \A d \in DOMAIN calls : d < c => calls[d].pc # "idle"

(***************************************************************************)
(* create_conversation called on its own (POST /conversations).            *)
(***************************************************************************)
CreateConversation ==
    /\ FreshIds # {}
    /\ conversations' = Store(conversations, NewId, CreatedConversation(0))
    /\ metrics' = CreatedMetrics
    /\ UNCHANGED <<now, calls, toolVars, hostVars>>

(***************************************************************************)
(* process_message up to its await of swarm_agent.process                  *)
(* (swarm_orchestrator.py:126-149).  cid = NoConv is a call without        *)
(* conversation_id.                                                        *)
(***************************************************************************)
ProcessMessageNotFound(c, cid) ==
    /\ calls[c].pc = "idle"
    /\ InOrder(c)
    /\ cid # NoConv
    /\ cid \notin DOMAIN conversations
    /\ calls' = [calls EXCEPT ![c] = [@ EXCEPT !.pc = "done", !.given = TRUE,
                                               !.result = "not_found"]]
    /\ UNCHANGED <<now, conversations, metrics, toolVars, hostVars>>

ProcessMessageStart(c, cid) ==
    /\ calls[c].pc = "idle"
    /\ InOrder(c)
    /\ IF cid # NoConv THEN cid \in DOMAIN conversations ELSE FreshIds # {}
    /\ LET id == IF cid # NoConv THEN cid ELSE NewId
           conv == IF cid # NoConv THEN conversations[cid]
                   ELSE CreatedConversation(c)
       IN /\ conversations' =
                 Store(conversations, id, add_message(conv, "user", c, "none"))
          /\ metrics' = IF cid # NoConv THEN metrics ELSE CreatedMetrics
          /\ calls' = [calls EXCEPT ![c] =
                 [@ EXCEPT !.pc = "awaiting", !.conv = id,
                           !.given = (cid # NoConv),
                           !.old_stage = conv.current_stage,
                           !.old_enum = conv.stage_enum,
                           !.process_start_time = now]]
    /\ UNCHANGED <<now, toolVars, hostVars>>

(***************************************************************************)
(* _track_stage_transition (swarm_orchestrator.py:295-321): the metrics    *)
(* and the conversation after it.                                          *)
(***************************************************************************)
\* _track_stage_transition without the count of the transition
TransitionMetrics_uncounted(m, conv, old_stage, new_stage, start) ==
    [m EXCEPT
        !.time_by_stage[old_stage] =
            IF conv.metadata.stage_times[old_stage] # NoTime
            THEN Append(@, start - conv.metadata.stage_times[old_stage])
            ELSE @,
        !.conversion_by_stage[new_stage] = @ + 1,
        !.conversations_by_stage[new_stage] = @ + 1]

TransitionMetrics(m, conv, old_stage, new_stage, start) ==
    [m EXCEPT
        !.stage_transitions[<<old_stage, new_stage>>] = @ + 1,
        !.time_by_stage[old_stage] =
            IF conv.metadata.stage_times[old_stage] # NoTime
            THEN Append(@, start - conv.metadata.stage_times[old_stage])
            ELSE @,
        !.conversion_by_stage[new_stage] = @ + 1,
        !.conversations_by_stage[new_stage] = @ + 1]

TransitionConv(conv, new_stage, start) ==
    [conv EXCEPT !.metadata.stage_times[new_stage] = start]

RECURSIVE UsageMetrics(_, _)
\* swarm_orchestrator.py:198-200
UsageMetrics(m, agents_used) ==
    IF agents_used = <<>> THEN m
    ELSE UsageMetrics([m EXCEPT !.agents_usage[Head(agents_used)] = @ + 1],
                      Tail(agents_used))

InSeq(x, s) == \E i \in 1..Len(s) : s[i] = x

\* swarm_orchestrator.py:205: the guard of the closed-sale count
CountsAsSale(conv, agents_used) == InSeq("closing_agent", agents_used)

\* swarm_orchestrator.py:202-213
ClosingMetrics(m, conv, new_stage, agents_used) ==
    LET m1 == IF new_stage = "closing"
              THEN [m EXCEPT !.conversion_by_stage["closing"] = @ + 1,
                             !.closed_sales =
                                 IF CountsAsSale(conv, agents_used)
                                 THEN @ + 1 ELSE @]
              ELSE m
    IN IF new_stage = "completed"
       THEN [m1 EXCEPT !.completed_conversations = @ + 1]
       ELSE m1

ClosingConv(conv, new_stage, agents_used) ==
    IF new_stage = "closing" /\ CountsAsSale(conv, agents_used)
    THEN [conv EXCEPT !.metadata.sale_closed = TRUE]
    ELSE conv

(***************************************************************************)
(* process_message from the return of swarm_agent.process to its own       *)
(* return (swarm_orchestrator.py:149-241).  SwarmSalesAgent.process        *)
(* (swarm_sales_agent.py:388-463) catches its own failures and always      *)
(* returns a non-empty response; after a failure the result has the status *)
(* "failed", no node_history and no telemetry, which is the trace <<>>.    *)
(* A swarm that completed has run at least its entry node.                 *)
(* old_stage.value at line 304 raises AttributeError when old_stage is the *)
(* plain string; the except clause at 229 turns it into the error result.  *)
(***************************************************************************)
ProcessMessageFinish(c, node_history, status) ==
    /\ calls[c].pc = "awaiting"
    /\ (status = "failed") <=> (node_history = <<>>)
    /\ LET id == calls[c].conv
           old_stage == calls[c].old_stage
           start == calls[c].process_start_time
           agents_used == Dedup(node_history)
           last_agent == LastAgent(node_history, agents_used)
           new_stage == stage_mapping(last_agent)
           conv1 == add_message(conversations[id], "agent", c, "swarm")
           raises == old_stage # new_stage /\ ~calls[c].old_enum
           conv2 == IF old_stage # new_stage
                    THEN TransitionConv(conv1, new_stage, start) ELSE conv1
           conv3 == [conv2 EXCEPT !.current_stage = new_stage,
                                  !.stage_enum = TRUE,
                                  !.active_agent = last_agent]
           m1 == IF old_stage # new_stage
                 THEN TransitionMetrics(metrics, conv1, old_stage, new_stage, start)
                 ELSE metrics
           m2 == UsageMetrics(m1, agents_used)
       IN IF raises
          THEN /\ conversations' = Store(conversations, id, conv1)
               /\ metrics' = metrics
               /\ calls' = [calls EXCEPT ![c] =
                      [@ EXCEPT !.pc = "done", !.result = "error",
                                !.status = status]]
          ELSE /\ conversations' =
                      Store(conversations, id,
                            ClosingConv(conv3, new_stage, agents_used))
               /\ metrics' = ClosingMetrics(m2, conv3, new_stage, agents_used)
               /\ calls' = [calls EXCEPT ![c] =
                      [@ EXCEPT !.pc = "done", !.result = "ok",
                                !.stage = new_stage, !.status = status]]
    /\ UNCHANGED <<now, toolVars, hostVars>>

\* the clock advances
Tick ==
    /\ now < MaxTime
    /\ now' = now + 1
    /\ UNCHANGED <<trackerVars, toolVars, hostVars>>

\* swarm_orchestrator.py:344-347, in whole percent
sales_conversion_rate ==
    IF metrics.conversations_total > 0
    THEN (metrics.closed_sales * 100) \div metrics.conversations_total
    ELSE 0

RECURSIVE Sum(_)
Sum(s) == IF s = <<>> THEN 0 ELSE Head(s) + Sum(Tail(s))

\* swarm_orchestrator.py:323-362, in whole units.  The counters are
\* defaultdicts: a stage has a key in time_by_stage once a sample was appended
\* and in conversion_by_stage once it was counted, and the figures are
\* computed for the keys there are.
get_conversion_metrics ==
    LET total_conversations == metrics.conversations_total
        timed == {s \in ConversationStage : metrics.time_by_stage[s] # <<>>}
        counted == {s \in ConversationStage : metrics.conversion_by_stage[s] > 0}
    IN [total_conversations |-> total_conversations,
        closed_sales |-> metrics.closed_sales,
        sales_conversion_rate |-> sales_conversion_rate,
        abandonment_rate |->
            IF total_conversations > 0
            THEN ((total_conversations - metrics.completed_conversations) * 100)
                     \div total_conversations
            ELSE 0,
        conversion_rates_by_stage |->
            IF total_conversations > 0
            THEN [s \in counted |->
                     (metrics.conversion_by_stage[s] * 100) \div total_conversations]
            ELSE <<>>,
        average_time_by_stage |->
            [s \in timed |->
                Sum(metrics.time_by_stage[s]) \div Len(metrics.time_by_stage[s])]]

(***************************************************************************)
(* CRMTool over MockCRMServer.                                             *)
(***************************************************************************)
ToolCallIds == 1..MaxToolCalls
RetryCallIds == 1..MaxRetryCalls
None == "None"

\* retry_on_error(max_retries=3, delay=1.0, backoff=2.0), crm_tool.py:106
max_retries == 3
delay == 1
backoff == 2

\* mock_crm_server.py:40-49: the lead the model keeps, and its email
LeadIds == {"lead_001"}
EmailOf(l) == "john.doe@example.com"

\* every operation taken for a read
ReadOps_all ==
    {"get_lead_info", "get_sales_history", "update_lead_status", "track_event"}

ReadOps == {"get_lead_info", "get_sales_history"}

\* the operations that change the provider's data: CRMTool.update_lead_status
\* and AnalyticsTool.track_event (analytics_tool.py:203-250).  AnalyticsTool
\* has the cache code and the retry wrapper of CRMTool and a _cache of its own;
\* a cache key begins with the tool's name, so the model keeps the entries
\* of both objects in the one mapping.
MutatingOps == {"update_lead_status", "track_event"}

\* the calls the model makes: (operation, parameters as the method builds them)
LeadInfoParams ==
    {[lead_id |-> "lead_001", email |-> None],
     [lead_id |-> None, email |-> "john.doe@example.com"],
     [lead_id |-> None, email |-> None]}
UpdateParams ==
    {[lead_id |-> "lead_001", status |-> "qualified", notes |-> None]}
SalesHistoryParams ==
    {[lead_id |-> "lead_001", limit |-> 10]}
TrackParams ==
    {[event_type |-> "stage_entry", stage |-> "faq", lead_id |-> "lead_001"]}
ToolInputs ==
    ({"get_lead_info"} \X LeadInfoParams)
    \cup ({"update_lead_status"} \X UpdateParams)
    \cup ({"get_sales_history"} \X SalesHistoryParams)

\* crm_tool.py:75-88: json.dumps with sort_keys is one string per dict
_get_cache_key(tool_name, parameters) == <<tool_name, parameters>>

\* _is_cache_valid with <= for <
_is_cache_valid_le(cached_time) ==
    IF ~cache_enabled THEN FALSE
    ELSE (now - cached_time) <= cache_ttl

\* _is_cache_valid with the comparison turned round
_is_cache_valid_gt(cached_time) ==
    IF ~cache_enabled THEN FALSE
    ELSE (now - cached_time) > cache_ttl

\* crm_tool.py:90-104
_is_cache_valid(cached_time) ==
    IF ~cache_enabled THEN FALSE
    ELSE (now - cached_time) < cache_ttl

\* crm_tool.py:186: f'"lead_id": "{lead_id}"' in key
KeyNamesLead(key, lead_id) == key[2].lead_id = lead_id

\* crm_tool.py:183-189
Invalidated(c, lead_id) ==
    IF cache_enabled
    THEN [k \in {k \in DOMAIN c : ~KeyNamesLead(k, lead_id)} |-> c[k]]
    ELSE c

\* only a result with success = true is stored
Cached_successes_only(c, key, result) ==
    IF cache_enabled /\ result.success = "true"
    THEN [k \in DOMAIN c \cup {key} |->
             IF k = key THEN [value |-> result, time |-> now] ELSE c[k]]
    ELSE c

\* crm_tool.py:141-145
Cached(c, key, result) ==
    IF cache_enabled
    THEN [k \in DOMAIN c \cup {key} |->
             IF k = key THEN [value |-> result, time |-> now] ELSE c[k]]
    ELSE c

\* crm_tool.py:125-126, analytics_tool.py:223-224: ValueError before
\* anything else
MissingRequired(op, params) ==
    \/ op = "get_lead_info" /\ params.lead_id = None /\ params.email = None
    \/ op = "track_event" /\ (params.event_type = None \/ params.stage = None)

NoResult == [success |-> "absent", error |-> "none", lead_id |-> None, status |-> None]

\* mock_crm_server.py:128-168
_get_lead_info(params) ==
    IF params.lead_id = None /\ params.email = None
    THEN [NoResult EXCEPT !.success = "false", !.error = "lead_id or email required"]
    ELSE LET found == IF params.lead_id # None
                      THEN {l \in LeadIds : l = params.lead_id}
                      ELSE {l \in LeadIds : EmailOf(l) = params.email}
         IN IF found = {}
            THEN [NoResult EXCEPT !.error = "Lead not found"]
            ELSE LET l == CHOOSE l \in found : TRUE
                 IN [NoResult EXCEPT !.success = "true", !.lead_id = l,
                                     !.status = leads[l].status]

\* mock_crm_server.py:170-227: the result
_update_lead_status(params) ==
    IF params.lead_id \notin LeadIds
    THEN [NoResult EXCEPT !.error = "Lead not found"]
    ELSE [NoResult EXCEPT !.success = "true", !.lead_id = params.lead_id,
                          !.status = params.status]

\* mock_crm_server.py:214-218: the leads after it
UpdatedLeads(params) ==
    IF params.lead_id \in LeadIds
    THEN [leads EXCEPT ![params.lead_id].status = params.status,
                       ![params.lead_id].updated_at = now]
    ELSE leads

\* mock_crm_server.py:229-254: the history is fixed after construction
_get_sales_history(params) ==
    [NoResult EXCEPT !.success = "true", !.lead_id = params.lead_id]

\* mock_analytics_server.py:187-220: the result; the list of events is not
\* kept
_track_event(params) ==
    [NoResult EXCEPT !.success = "true", !.lead_id = params.lead_id]

\* mock_crm_server.py:117-126, mock_analytics_server.py:80-81
ProviderCall(op, params) ==
    CASE op = "get_lead_info" -> _get_lead_info(params)
      [] op = "update_lead_status" -> _update_lead_status(params)
      [] op = "get_sales_history" -> _get_sales_history(params)
      [] op = "track_event" -> _track_event(params)

IdleToolCall ==
    [pc |-> "idle", op |-> "none", params |-> [lead_id |-> None],
     attempt |-> 0, current_delay |-> delay, wake_at |-> NoTime,
     body_runs |-> 0, provider_outcomes |-> <<>>,
     result |-> NoResult, from_cache |-> FALSE, expired_seen |-> FALSE]

ToolInOrder(c) == \A d \in ToolCallIds : d < c => tcalls[d].pc # "idle"

\* crm_tool.py:22-24: the wrapper starts
ToolInvoke(c, op, params) ==
    /\ tcalls[c].pc = "idle"
    /\ ToolInOrder(c)
    /\ tcalls' = [tcalls EXCEPT ![c] =
           [@ EXCEPT !.pc = "ready", !.op = op, !.params = params]]
    /\ UNCHANGED <<now, trackerVars, hostVars, cache_enabled, cache_ttl, cache, leads, failures>>

\* the wrapper giving up one attempt early
LastAttempt_early(attempt) == ~(attempt < max_retries - 2)

\* crm_tool.py:26-35: the attempt that was range(max_retries)'s last one
\* re-raises, any other sleeps current_delay
LastAttempt(attempt) == ~(attempt < max_retries - 1)

\* crm_tool.py:29-35
OnError(call) ==
    IF LastAttempt(call.attempt)
    THEN [call EXCEPT !.pc = "raised"]
    ELSE [call EXCEPT !.pc = "sleeping", !.wake_at = now + call.current_delay]

\* crm_tool.py:132-134
CacheHit(key) ==
    /\ cache_enabled
    /\ key \in DOMAIN cache
    /\ _is_cache_valid(cache[key].time)

\* crm_tool.py:132 holds and 134 does not: an entry is there and is too old
CacheExpired(key) ==
    /\ cache_enabled
    /\ key \in DOMAIN cache
    /\ ~_is_cache_valid(cache[key].time)

\* the decorated method from its start to its first await, return or raise
\* (crm_tool.py:125-139, 172-173, 216-227)
ToolAttempt(c) ==
    /\ tcalls[c].pc = "ready"
    /\ LET call == [tcalls[c] EXCEPT !.body_runs = @ + 1]
           key == _get_cache_key(call.op, call.params)
       IN tcalls' = [tcalls EXCEPT ![c] =
              IF MissingRequired(call.op, call.params)
              THEN OnError(call)
              ELSE IF call.op \in ReadOps /\ CacheHit(key)
              THEN [call EXCEPT !.pc = "returned", !.result = cache[key].value,
                                !.from_cache = TRUE]
              ELSE [call EXCEPT !.pc = "in_provider",
                                !.expired_seen = (call.op \in ReadOps
                                                  /\ CacheExpired(key))]]
    /\ UNCHANGED <<now, trackerVars, hostVars, cache_enabled, cache_ttl, cache, leads, failures>>

\* crm_server.call returns: the provider's body and the rest of the method
\* run without suspension (crm_tool.py:139-147, 173-191, 227-235;
\* analytics_tool.py:226-238 for track_event, which stores nothing)
ProviderReturns(c) ==
    /\ tcalls[c].pc = "in_provider"
    /\ LET call == tcalls[c]
           result == ProviderCall(call.op, call.params)
           key == _get_cache_key(call.op, call.params)
       IN /\ leads' = IF call.op = "update_lead_status"
                      THEN UpdatedLeads(call.params) ELSE leads
          /\ cache' = IF call.op = "update_lead_status"
                      THEN Invalidated(cache, call.params.lead_id)
                      ELSE IF call.op \in ReadOps
                      THEN Cached(cache, key, result)
                      ELSE cache
          /\ tcalls' = [tcalls EXCEPT ![c] =
                 [call EXCEPT !.pc = "returned", !.result = result,
                              !.from_cache = FALSE,
                              !.provider_outcomes = Append(@, "ok")]]
    /\ UNCHANGED <<now, trackerVars, hostVars, cache_enabled, cache_ttl, failures>>

\* crm_server.call raises: the method logs and raises RuntimeError
\* (crm_tool.py:148-150), which the wrapper catches
ProviderRaises(c, limit) ==
    /\ tcalls[c].pc = "in_provider"
    /\ failures < limit
    /\ failures' = failures + 1
    /\ tcalls' = [tcalls EXCEPT ![c] =
           OnError([@ EXCEPT !.provider_outcomes = Append(@, "raise")])]
    /\ UNCHANGED <<now, trackerVars, hostVars, cache_enabled, cache_ttl, cache, leads>>

\* the wrapper without current_delay *= backoff
RetryWake_no_backoff(c) ==
    /\ tcalls[c].pc = "sleeping"
    /\ now >= tcalls[c].wake_at
    /\ tcalls' = [tcalls EXCEPT ![c] =
           [@ EXCEPT !.pc = "ready", !.attempt = @ + 1]]
    /\ UNCHANGED <<now, trackerVars, hostVars, cache_enabled, cache_ttl, cache, leads, failures>>

\* crm_tool.py:32-33: asyncio.sleep(current_delay) is over
RetryWake(c) ==
    /\ tcalls[c].pc = "sleeping"
    /\ now >= tcalls[c].wake_at
    /\ tcalls' = [tcalls EXCEPT ![c] =
           [@ EXCEPT !.pc = "ready", !.attempt = @ + 1,
                     !.current_delay = @ * backoff]]
    /\ UNCHANGED <<now, trackerVars, hostVars, cache_enabled, cache_ttl, cache, leads, failures>>

\* crm_tool.py:242-245
clear_cache ==
    /\ cache # <<>>
    /\ cache' = <<>>
    /\ UNCHANGED <<now, trackerVars, hostVars, cache_enabled, cache_ttl, leads, tcalls, failures>>

\* time is read only by a sleeping call and by the check of a cache entry:
\* the clock is let to advance while a sleep is not yet over or an entry is not
\* yet expired
TimeObserved ==
    \/ \E k \in DOMAIN cache : now - cache[k].time < cache_ttl
    \/ \E c \in ToolCallIds : tcalls[c].pc = "sleeping" /\ now < tcalls[c].wake_at

ToolTick ==
    /\ now < MaxToolTime
    /\ TimeObserved
    /\ now' = now + 1
    /\ UNCHANGED <<trackerVars, toolVars, hostVars>>

(***************************************************************************)
(* MCPServerFactory (src/src/utils/mcp_server_factory.py).  get_server is  *)
(* a plain function without an await: on the event loop it runs from its   *)
(* first line to its return as one step.  Its callers are tasks of the     *)
(* loop; a task that has been created and has not run yet is "pending".    *)
(* A provider instance is named by the number of its construction.         *)
(***************************************************************************)
GetCallIds == 1..MaxGets
NoInstance == 0

\* mcp_server_factory.py:121-152, of which the model keeps two
server_map == {"mock_crm", "mock_catalog"}
ServerNames == server_map \cup {"no_such_server"}

\* mcp_server_factory.py:59: f"{server_name}_{simulate_latency}" ends in
\* _True or _False and so names one (server_name, simulate_latency) pair
cache_key(server_name, simulate_latency) == <<server_name, simulate_latency>>

IdleGetCall ==
    [pc |-> "idle", server_name |-> "none", simulate_latency |-> FALSE,
     result |-> NoInstance, error |-> "none", constructed |-> FALSE,
     contenders |-> {}, current |-> FALSE]

GetInOrder(c) == \A d \in GetCallIds : d < c => gcalls[d].pc # "idle"

\* what a call returned before the instances were cleared is of a past period
Outdated(gs) == [c \in GetCallIds |-> [gs[c] EXCEPT !.current = FALSE]]

\* mcp_server_factory.py:29-39
MCPServerFactory_initialize ==
    /\ _settings' = TRUE
    /\ _instances' = <<>>
    /\ gcalls' = Outdated(gcalls)
    /\ UNCHANGED <<now, trackerVars, toolVars, created, dispatchVars>>

\* a task that is going to call get_server is created
GetArrives(c, server_name, simulate_latency) ==
    /\ gcalls[c].pc = "idle"
    /\ GetInOrder(c)
    /\ gcalls' = [gcalls EXCEPT ![c] =
           [@ EXCEPT !.pc = "pending", !.server_name = server_name,
                     !.simulate_latency = simulate_latency]]
    /\ UNCHANGED <<now, trackerVars, toolVars, _settings, _instances, created,
                   dispatchVars>>

\* get_server constructing whether or not the key is cached
InCache_never(key) == FALSE

\* mcp_server_factory.py:60
InCache(key) == key \in DOMAIN _instances

\* get_server storing under the key before the provider is made, so that an
\* unknown name leaves an entry behind
get_server_store_first(c) ==
    /\ gcalls[c].pc = "pending"
    /\ LET call == gcalls[c]
           key == cache_key(call.server_name, call.simulate_latency)
       IN IF ~_settings
          THEN /\ gcalls' = [gcalls EXCEPT ![c] =
                      [call EXCEPT !.pc = "raised", !.error = "RuntimeError"]]
               /\ UNCHANGED <<_instances, created>>
          ELSE IF InCache(key)
          THEN /\ gcalls' = [gcalls EXCEPT ![c] =
                      [call EXCEPT !.pc = "returned", !.result = _instances[key],
                                   !.current = TRUE]]
               /\ UNCHANGED <<_instances, created>>
          ELSE IF call.server_name \notin server_map
          THEN /\ gcalls' = [gcalls EXCEPT ![c] =
                      [call EXCEPT !.pc = "raised", !.error = "ValueError"]]
               /\ _instances' =
                      [k \in DOMAIN _instances \cup {key} |->
                          IF k = key THEN NoInstance ELSE _instances[k]]
               /\ UNCHANGED created
          ELSE /\ created' = created + 1
               /\ _instances' =
                      [k \in DOMAIN _instances \cup {key} |->
                          IF k = key THEN created + 1 ELSE _instances[k]]
               /\ gcalls' = [gcalls EXCEPT ![c] =
                      [call EXCEPT
                          !.pc = "returned", !.result = created + 1,
                          !.constructed = TRUE, !.current = TRUE,
                          !.contenders =
                              {d \in GetCallIds \ {c} :
                                  /\ gcalls[d].pc = "pending"
                                  /\ cache_key(gcalls[d].server_name,
                                               gcalls[d].simulate_latency) = key}]]
    /\ UNCHANGED <<now, trackerVars, toolVars, _settings, dispatchVars>>

\* mcp_server_factory.py:41-76, with _create_server (106-160)
get_server(c) ==
    /\ gcalls[c].pc = "pending"
    /\ LET call == gcalls[c]
           key == cache_key(call.server_name, call.simulate_latency)
       IN IF ~_settings
          THEN /\ gcalls' = [gcalls EXCEPT ![c] =
                      [call EXCEPT !.pc = "raised", !.error = "RuntimeError"]]
               /\ UNCHANGED <<_instances, created>>
          ELSE IF InCache(key)
          THEN /\ gcalls' = [gcalls EXCEPT ![c] =
                      [call EXCEPT !.pc = "returned", !.result = _instances[key],
                                   !.current = TRUE]]
               /\ UNCHANGED <<_instances, created>>
          ELSE IF call.server_name \notin server_map
          THEN /\ gcalls' = [gcalls EXCEPT ![c] =
                      [call EXCEPT !.pc = "raised", !.error = "ValueError"]]
               /\ UNCHANGED <<_instances, created>>
          ELSE /\ created' = created + 1
               /\ _instances' =
                      [k \in DOMAIN _instances \cup {key} |->
                          IF k = key THEN created + 1 ELSE _instances[k]]
               /\ gcalls' = [gcalls EXCEPT ![c] =
                      [call EXCEPT
                          !.pc = "returned", !.result = created + 1,
                          !.constructed = TRUE, !.current = TRUE,
                          !.contenders =
                              {d \in GetCallIds \ {c} :
                                  /\ gcalls[d].pc = "pending"
                                  /\ cache_key(gcalls[d].server_name,
                                               gcalls[d].simulate_latency) = key}]]
    /\ UNCHANGED <<now, trackerVars, toolVars, _settings, dispatchVars>>

\* mcp_server_factory.py:162-167
MCPServerFactory_clear_cache ==
    /\ _instances # <<>>
    /\ _instances' = <<>>
    /\ gcalls' = Outdated(gcalls)
    /\ UNCHANGED <<now, trackerVars, toolVars, _settings, created, dispatchVars>>

(***************************************************************************)
(* MCPTools.call_tool (src/src/agents/mcp_tools.py) over the providers     *)
(* MockCRMServer and MockCatalogServer, held directly or reached through   *)
(* MCPServerHTTP (src/src/mcp_servers/http_server.py).                     *)
(***************************************************************************)
DispatchCallIds == 1..MaxDispatchCalls
Absent == "absent"

\* a URL is the sequence of its parts; "8001" in url is the test whether the
\* part occurs in it
Contains(url, part) == \E i \in 1..Len(url) : url[i] = part

\* MCPTools.tools: the declared tools and their mcp_url.  The ports are those
\* of http_server.py:121-125.
tools ==
    [t \in {"get_lead_info", "get_product_details", "retorna_preco"} |->
        IF t = "get_lead_info" THEN <<"http", "localhost", "8001">>
        ELSE <<"http", "localhost", "8002">>]

\* mcp_tools.py:196-226
_get_server_name_from_url(url) ==
    IF Contains(url, "8001") THEN "mock_crm"
    ELSE IF Contains(url, "8002") THEN "mock_catalog"
    ELSE IF Contains(url, "8003") THEN "mock_analytics"
    ELSE IF Contains(url, "8005") THEN "mock_ifood"
    ELSE IF Contains(url, "8006") THEN "mock_restaurant"
    ELSE IF Contains(url, "8007") THEN "mock_recommendation"
    ELSE IF Contains(url, "8008") THEN "mock_contract"
    ELSE IF Contains(url, "8009") THEN "mock_pricing"
    ELSE IF Contains(url, "8010") THEN "mock_qualification"
    ELSE "unknown"

\* http_server.py:121-125: the provider behind the endpoint of a URL
EndpointServer(url) ==
    IF Contains(url, "8001") THEN "mock_crm" ELSE "mock_catalog"

\* list_tools of the two providers (mock_crm_server.py, mock_catalog_server.py:214-270)
list_tools(server_name) ==
    IF server_name = "mock_crm"
    THEN {"get_lead_info", "update_lead_status", "get_sales_history",
          "concluir_compra"}
    ELSE {"get_products", "get_product_details", "search_products",
          "retorna_preco"}

\* the handlers the provider classes define
Handlers(server_name) ==
    IF server_name = "mock_crm"
    THEN {"get_lead_info", "update_lead_status", "get_sales_history",
          "concluir_compra"}
    ELSE {"get_products", "get_product_details", "search_products"}

\* the calls the model makes; Absent is a key the caller does not pass
DispatchInputs ==
    {<<"get_lead_info", [lead_id |-> "lead_001", email |-> None]>>,
     <<"get_lead_info", [lead_id |-> "lead_404", email |-> None]>>,
     <<"get_product_details", [product_id |-> "maquinona_001"]>>,
     <<"get_product_details", [product_id |-> Absent]>>,
     <<"retorna_preco", [product_id |-> "maquinona_001"]>>,
     <<"no_such_tool", [product_id |-> Absent]>>}

\* mock_catalog_server.py:158-178
_get_product_details(params) ==
    IF params.product_id # "maquinona_001"
    THEN [NoResult EXCEPT !.error = "Product not found"]
    ELSE [NoResult EXCEPT !.success = "true"]

Raise(kind) == [raises |-> kind, result |-> NoResult]
Return(result) == [raises |-> "none", result |-> result]

\* the call method of a provider (mock_crm_server.py:110-126,
\* mock_catalog_server.py:110-124): _validate_tool_exists, then the handler
\* with **params
ServerCall(server_name, tool_name, params) ==
    IF tool_name \notin list_tools(server_name) THEN Raise("ValueError")
    ELSE IF tool_name \notin Handlers(server_name) THEN Raise("AttributeError")
    ELSE IF tool_name = "get_lead_info" THEN Return(_get_lead_info(params))
    ELSE IF params.product_id = Absent THEN Raise("TypeError")
    ELSE Return(_get_product_details(params))

IdleDispatchCall ==
    [pc |-> "idle", tool_name |-> "none", params |-> [product_id |-> Absent],
     result |-> NoResult, error |-> "none", transport |-> "none",
     direct_calls |-> 0, direct_raised |-> "none",
     wire_calls |-> 0, wire_outcome |-> "none"]

DispatchInOrder(c) == \A d \in DispatchCallIds : d < c => dcalls[d].pc # "idle"

\* call_tool without the test of the tool's name: an undeclared name goes to
\* the wire and fails there
call_tool_unchecked(c, tool_name, params) ==
    /\ dcalls[c].pc = "idle"
    /\ DispatchInOrder(c)
    /\ LET call == [dcalls[c] EXCEPT !.tool_name = tool_name, !.params = params]
       IN dcalls' = [dcalls EXCEPT ![c] =
              IF tool_name \notin DOMAIN tools
              THEN [call EXCEPT !.pc = "raised", !.error = "RuntimeError",
                                !.wire_calls = @ + 1,
                                !.wire_outcome = "connect_error"]
              ELSE IF _get_server_name_from_url(tools[tool_name]) \in servers
              THEN [call EXCEPT !.pc = "direct", !.direct_calls = @ + 1]
              ELSE [call EXCEPT !.pc = "wire", !.wire_calls = @ + 1]]
    /\ UNCHANGED <<now, trackerVars, toolVars, registryVars, servers, lcalls>>

\* mcp_tools.py:53-100 and 115-129: call_tool up to its first await
call_tool(c, tool_name, params) ==
    /\ dcalls[c].pc = "idle"
    /\ DispatchInOrder(c)
    /\ LET call == [dcalls[c] EXCEPT !.tool_name = tool_name, !.params = params]
       IN dcalls' = [dcalls EXCEPT ![c] =
              IF tool_name \notin DOMAIN tools
              THEN [call EXCEPT !.pc = "raised", !.error = "ValueError"]
              ELSE IF _get_server_name_from_url(tools[tool_name]) \in servers
              THEN [call EXCEPT !.pc = "direct", !.direct_calls = @ + 1]
              ELSE [call EXCEPT !.pc = "wire", !.wire_calls = @ + 1]]
    /\ UNCHANGED <<now, trackerVars, toolVars, registryVars, servers, lcalls>>

\* the direct call's error reaching the caller of call_tool
DirectCompletes_propagating(c) ==
    /\ dcalls[c].pc = "direct"
    /\ LET call == dcalls[c]
           out == ServerCall(_get_server_name_from_url(tools[call.tool_name]),
                             call.tool_name, call.params)
       IN dcalls' = [dcalls EXCEPT ![c] =
              IF out.raises = "none"
              THEN [call EXCEPT !.pc = "returned", !.result = out.result,
                                !.transport = "direct"]
              ELSE [call EXCEPT !.pc = "raised", !.error = out.raises,
                                !.direct_raised = out.raises]]
    /\ UNCHANGED <<now, trackerVars, toolVars, registryVars, servers, lcalls>>

\* mcp_tools.py:98-129: server.call is over; after an exception the request
\* is posted to the tool's mcp_url
DirectCompletes(c) ==
    /\ dcalls[c].pc = "direct"
    /\ LET call == dcalls[c]
           out == ServerCall(_get_server_name_from_url(tools[call.tool_name]),
                             call.tool_name, call.params)
       IN dcalls' = [dcalls EXCEPT ![c] =
              IF out.raises = "none"
              THEN [call EXCEPT !.pc = "returned", !.result = out.result,
                                !.transport = "direct"]
              ELSE [call EXCEPT !.pc = "wire", !.wire_calls = @ + 1,
                                !.direct_raised = out.raises]]
    /\ UNCHANGED <<now, trackerVars, toolVars, registryVars, servers, lcalls>>

\* what becomes of the posted request: the endpoint answers it
\* (http_server.py:38-60), the connection fails, or the time runs out
WireOutcomes == {"answered", "connect_error", "timeout"}

\* mcp_tools.py:121-194 with http_server.py:38-60: a handler's exception is
\* the status 500, which raise_for_status turns into HTTPStatusError
WireCompletes(c, outcome) ==
    /\ dcalls[c].pc = "wire"
    /\ LET call == dcalls[c]
           out == ServerCall(EndpointServer(tools[call.tool_name]),
                             call.tool_name, call.params)
       IN dcalls' = [dcalls EXCEPT ![c] =
              IF outcome = "answered" /\ out.raises = "none"
              THEN [call EXCEPT !.pc = "returned", !.result = out.result,
                                !.transport = "wire", !.wire_outcome = "200"]
              ELSE [call EXCEPT !.pc = "raised", !.error = "RuntimeError",
                                !.wire_outcome =
                                    IF outcome = "answered" THEN "500"
                                    ELSE outcome]]
    /\ UNCHANGED <<now, trackerVars, toolVars, registryVars, servers, lcalls>>

(***************************************************************************)
(* MCPTools.list_tools and discover_tools for an endpoint                  *)
(* (mcp_tools.py:228-346).  The provider's list_tools is a plain function: *)
(* the direct part runs without suspension, and the first await is the GET *)
(* of /mcp/tools.  A tool definition is the record of its name.            *)
(***************************************************************************)
ListCallIds == 1..MaxListCalls
ListOps == {"list_tools", "discover_tools"}

\* the mcp_url values the model passes
ListUrls == {<<"http", "localhost", "8001">>, <<"http", "localhost", "8002">>}

\* what the held provider's list_tools does: MCPTools takes any object as a
\* provider, and its list_tools returns its definitions or raises
DirectListOutcomes == {"listed", "raises"}

\* what becomes of the GET: the endpoint answers 200 with its tools
\* (http_server.py:62-76), the connection fails, the time runs out, the status
\* is not 2xx, or the body is not the JSON object expected
ListWireOutcomes ==
    {"answered", "connect_error", "timeout", "bad_status", "malformed"}

\* the definitions a provider lists
Definitions(server_name) == {[name |-> n] : n \in list_tools(server_name)}

\* mcp_tools.py:244 and 264: [tool["name"] for tool in tools] for list_tools,
\* the definitions themselves for discover_tools (302, 322)
Listed(op, defs) == IF op = "list_tools" THEN {d.name : d \in defs} ELSE defs

IdleListCall ==
    [pc |-> "idle", op |-> "none", mcp_url |-> <<>>, result |-> {},
     error |-> "none", direct |-> "none", wire_calls |-> 0,
     wire_outcome |-> "none"]

ListInOrder(c) == \A d \in ListCallIds : d < c => lcalls[d].pc # "idle"

\* mcp_tools.py:237-260 and 298-320: the call up to its return from the
\* provider held directly or to its await of the GET
ListStart(c, op, mcp_url, direct) ==
    /\ lcalls[c].pc = "idle"
    /\ ListInOrder(c)
    /\ LET call == [lcalls[c] EXCEPT !.op = op, !.mcp_url = mcp_url]
           server_name == _get_server_name_from_url(mcp_url)
       IN lcalls' = [lcalls EXCEPT ![c] =
              IF server_name \in servers /\ direct = "listed"
              THEN [call EXCEPT !.pc = "returned", !.direct = "listed",
                                !.result = Listed(op, Definitions(server_name))]
              ELSE [call EXCEPT !.pc = "wire", !.wire_calls = @ + 1,
                                !.direct = IF server_name \in servers
                                           THEN "raised" ELSE "absent"]]
    /\ UNCHANGED <<now, trackerVars, toolVars, registryVars, servers, dcalls>>

\* the GET's timeout reaching the caller
ListWireCompletes_timeout_raises(c, outcome) ==
    /\ lcalls[c].pc = "wire"
    /\ LET call == lcalls[c]
           defs == Definitions(EndpointServer(call.mcp_url))
       IN lcalls' = [lcalls EXCEPT ![c] =
              IF outcome = "answered"
              THEN [call EXCEPT !.pc = "returned", !.wire_outcome = outcome,
                                !.result = Listed(call.op, defs)]
              ELSE IF outcome = "timeout"
              THEN [call EXCEPT !.pc = "raised", !.wire_outcome = outcome,
                                !.error = "TimeoutException"]
              ELSE [call EXCEPT !.pc = "returned", !.wire_outcome = outcome,
                                !.result = {}]]
    /\ UNCHANGED <<now, trackerVars, toolVars, registryVars, servers, dcalls>>

\* mcp_tools.py:258-286 and 318-346: the GET is over; every exception of the
\* try block is answered with the empty list
ListWireCompletes(c, outcome) ==
    /\ lcalls[c].pc = "wire"
    /\ LET call == lcalls[c]
           defs == Definitions(EndpointServer(call.mcp_url))
       IN lcalls' = [lcalls EXCEPT ![c] =
              IF outcome = "answered"
              THEN [call EXCEPT !.pc = "returned", !.wire_outcome = outcome,
                                !.result = Listed(call.op, defs)]
              ELSE [call EXCEPT !.pc = "returned", !.wire_outcome = outcome,
                                !.result = {}]]
    /\ UNCHANGED <<now, trackerVars, toolVars, registryVars, servers, dcalls>>

\* SwarmSalesAgent hands every provider of the factory to MCPTools
\* (swarm_sales_agent.py:37, 69)
HeldServers == {"mock_crm", "mock_catalog"}

InitTracker ==
    /\ conversations = <<>>
    /\ metrics = InitMetrics
    /\ calls = [c \in CallIds |-> IdleCall]

\* mock_crm_server.py:40-49 and crm_tool.py:66-72
InitTool ==
    /\ cache = <<>>
    /\ leads = [l \in LeadIds |-> [status |-> "new", updated_at |-> 0]]
    /\ tcalls = [c \in ToolCallIds |-> IdleToolCall]
    /\ failures = 0

\* mcp_server_factory.py:26-27
InitRegistry ==
    /\ _settings = FALSE
    /\ _instances = <<>>
    /\ created = 0
    /\ gcalls = [c \in GetCallIds |-> IdleGetCall]

\* mcp_tools.py:26-28
InitDispatcher ==
    /\ servers = HeldServers
    /\ dcalls = [c \in DispatchCallIds |-> IdleDispatchCall]
    /\ lcalls = [c \in ListCallIds |-> IdleListCall]

Init ==
    /\ now = 0
    /\ InitTracker
    /\ InitTool
    /\ cache_enabled = TRUE
    /\ cache_ttl = MaxTTL
    /\ InitRegistry
    /\ InitDispatcher

\* MCPTools built with the providers of the factory or, servers being
\* optional, with none
InitDispatch ==
    /\ now = 0
    /\ InitTracker
    /\ InitTool
    /\ cache_enabled = TRUE
    /\ cache_ttl = MaxTTL
    /\ InitRegistry
    /\ servers \in {HeldServers, {}}
    /\ dcalls = [c \in DispatchCallIds |-> IdleDispatchCall]
    /\ lcalls = [c \in ListCallIds |-> IdleListCall]

\* the calls of the tracker with the clock: a stage is left, entered again
\* and left again within MaxTimedCalls calls
TimedCallIds == 1..MaxTimedCalls

InitTimed ==
    /\ now = 0
    /\ conversations = <<>>
    /\ metrics = InitMetrics
    /\ calls = [c \in TimedCallIds |-> IdleCall]
    /\ InitTool
    /\ cache_enabled = TRUE
    /\ cache_ttl = MaxTTL
    /\ InitRegistry
    /\ InitDispatcher

InitCache ==
    /\ now = 0
    /\ InitTracker
    /\ InitTool
    /\ cache_enabled \in BOOLEAN
    /\ cache_ttl = MaxTTL
    /\ InitRegistry
    /\ InitDispatcher

NextTracker ==
    \/ CreateConversation
    \/ \E c \in CallIds, cid \in ConvIds : ProcessMessageNotFound(c, cid)
    \/ \E c \in CallIds, cid \in ConvIds \cup {NoConv} : ProcessMessageStart(c, cid)
    \/ \E c \in CallIds, h \in Traces, st \in PipelineStatus :
          ProcessMessageFinish(c, h, st)

\* the inputs that pass the method's own check of its parameters
CacheInputs == {i \in ToolInputs : ~MissingRequired(i[1], i[2])}

NextCache ==
    \/ \E c \in ToolCallIds, i \in CacheInputs : ToolInvoke(c, i[1], i[2])
    \/ \E c \in ToolCallIds : ToolAttempt(c)
    \/ \E c \in ToolCallIds : ProviderReturns(c)
    \/ \E c \in ToolCallIds : ProviderRaises(c, MaxCacheFailures)
    \/ \E c \in ToolCallIds : RetryWake(c)
    \/ clear_cache
    \/ ToolTick

\* reads of a lead, updates of it and tracked events
MutateInputs ==
    {<<"get_lead_info", [lead_id |-> "lead_001", email |-> None]>>,
     <<"update_lead_status",
       [lead_id |-> "lead_001", status |-> "qualified", notes |-> None]>>}
    \cup ({"track_event"} \X TrackParams)

NextMutate ==
    \/ \E c \in ToolCallIds, i \in MutateInputs : ToolInvoke(c, i[1], i[2])
    \/ \E c \in ToolCallIds : ToolAttempt(c)
    \/ \E c \in ToolCallIds : ProviderReturns(c)
    \/ \E c \in ToolCallIds : ProviderRaises(c, MaxCacheFailures)
    \/ \E c \in ToolCallIds : RetryWake(c)
    \/ clear_cache
    \/ ToolTick

\* reads of a lead the CRM does not have, a read of one it has, and an update
\* that names the unknown lead
FailureInputs ==
    {<<"get_lead_info", [lead_id |-> "lead_404", email |-> None]>>,
     <<"get_lead_info", [lead_id |-> "lead_001", email |-> None]>>,
     <<"update_lead_status",
       [lead_id |-> "lead_404", status |-> "qualified", notes |-> None]>>}

NextFailure ==
    \/ \E c \in ToolCallIds, i \in FailureInputs : ToolInvoke(c, i[1], i[2])
    \/ \E c \in ToolCallIds : ToolAttempt(c)
    \/ \E c \in ToolCallIds : ProviderReturns(c)
    \/ \E c \in ToolCallIds : ProviderRaises(c, MaxCacheFailures)
    \/ \E c \in ToolCallIds : RetryWake(c)
    \/ clear_cache
    \/ ToolTick

NextRetry ==
    \/ \E c \in RetryCallIds, i \in ToolInputs : ToolInvoke(c, i[1], i[2])
    \/ \E c \in RetryCallIds : ToolAttempt(c)
    \/ \E c \in RetryCallIds : ProviderReturns(c)
    \/ \E c \in RetryCallIds : ProviderRaises(c, MaxFailures)
    \/ \E c \in RetryCallIds : RetryWake(c)
    \/ clear_cache
    \/ ToolTick

NextRegistry ==
    \/ MCPServerFactory_initialize
    \/ \E c \in GetCallIds, n \in ServerNames, l \in BOOLEAN : GetArrives(c, n, l)
    \/ \E c \in GetCallIds : get_server(c)
    \/ MCPServerFactory_clear_cache

NextDispatch ==
    \/ \E c \in DispatchCallIds, i \in DispatchInputs : call_tool(c, i[1], i[2])
    \/ \E c \in DispatchCallIds : DirectCompletes(c)
    \/ \E c \in DispatchCallIds, o \in WireOutcomes : WireCompletes(c, o)

NextList ==
    \/ \E c \in ListCallIds, op \in ListOps, u \in ListUrls,
          d \in DirectListOutcomes : ListStart(c, op, u, d)
    \/ \E c \in ListCallIds, o \in ListWireOutcomes : ListWireCompletes(c, o)

Next == NextTracker \/ Tick

NextTimed ==
    \/ CreateConversation
    \/ \E c \in TimedCallIds, cid \in ConvIds : ProcessMessageNotFound(c, cid)
    \/ \E c \in TimedCallIds, cid \in ConvIds \cup {NoConv} :
          ProcessMessageStart(c, cid)
    \/ \E c \in TimedCallIds, h \in Traces, st \in PipelineStatus :
          ProcessMessageFinish(c, h, st)
    \/ Tick

\* the tracker, with the clock standing still
SpecTracker == Init /\ [][NextTracker]_vars

\* the tracker with the clock
Spec == Init /\ [][Next]_vars

\* the tracker with the clock and MaxTimedCalls calls
SpecTimed == InitTimed /\ [][NextTimed]_vars

\* the cached CRM client under concurrent calls, the provider raising at most
\* MaxCacheFailures times
SpecCache == InitCache /\ [][NextCache]_vars

\* the retrying CRM client, every input, the provider raising at most
\* MaxFailures times
SpecRetry == InitCache /\ [][NextRetry]_vars

\* the cached clients under reads and mutating calls
SpecMutate == InitCache /\ [][NextMutate]_vars

\* the cached CRM client under reads that the provider answers with a
\* failure result
SpecFailure == InitCache /\ [][NextFailure]_vars

\* the provider registry under tasks that call get_server
SpecRegistry == Init /\ [][NextRegistry]_vars

\* the dispatcher
SpecDispatch == InitDispatch /\ [][NextDispatch]_vars

\* the listing of an endpoint's tools
SpecList == InitDispatch /\ [][NextList]_vars

(***************************************************************************)
(* Properties of the conversation tracker (SpecTracker).                   *)
(***************************************************************************)
Log(id) == conversations[id].messages

Count(log, role, c) ==
    Cardinality({i \in 1..Len(log) : log[i].role = role /\ log[i].content = c})

Pos(log, role, c) ==
    CHOOSE i \in 1..Len(log) : log[i].role = role /\ log[i].content = c

IsPrefix(s, t) == Len(s) <= Len(t) /\ SubSeq(t, 1, Len(s)) = s

SaleClosedConvs ==
    {id \in DOMAIN conversations : conversations[id].metadata.sale_closed}

\* C1: the closed-sale counter is incremented at most once per conversation,
\* that is, it never exceeds the number of conversations flagged sale_closed.
C1_ClosedSaleOncePerConversation ==
    metrics.closed_sales <= Cardinality(SaleClosedConvs)

\* C2: closed_sales <= conversations_total in every reachable state, and the
\* reported sales_conversion_rate lies in 0..100.
C2_ClosedSalesBounded ==
    /\ metrics.closed_sales <= metrics.conversations_total
    /\ sales_conversion_rate \in 0..100

\* C3: calls on one conversation are serialized: no two of them are between
\* their user-message append and their return at the same time, and in the log
\* a user message of a call on an existing conversation is directly followed
\* by the reply to it.
C3_SerializedPerConversation ==
    /\ \A c1, c2 \in CallIds :
          (c1 # c2 /\ calls[c1].pc = "awaiting" /\ calls[c2].pc = "awaiting")
              => calls[c1].conv # calls[c2].conv
    /\ \A id \in DOMAIN conversations : \A i \in 1..(Len(Log(id)) - 1) :
          (Log(id)[i].role = "user" /\ calls[Log(id)[i].content].given)
              => Log(id)[i + 1] = Message("agent", Log(id)[i].content, "swarm")

Started(c) == calls[c].pc = "awaiting" \/ (calls[c].pc = "done" /\ calls[c].result # "not_found")

\* C4: under every interleaving of process_message calls on an existing
\* conversation, each call's user message is in the log exactly once and as
\* one whole message, and no step removes or changes a message of the log.
C4_BothMessagesAppended ==
    [][/\ \A id \in DOMAIN conversations :
             /\ id \in DOMAIN conversations'
             /\ IsPrefix(Log(id), conversations'[id].messages)
       /\ \A c \in CallIds :
             (calls'[c].given /\ Started(c)')
                 => /\ Count(conversations'[calls'[c].conv].messages, "user", c) = 1
                    /\ \A id \in DOMAIN conversations' : id # calls'[c].conv =>
                           Count(conversations'[id].messages, "user", c) = 0]_vars

\* two calls on one conversation ran concurrently: the second user message
\* was appended before the reply to the first
C4_Witness ==
    \E c1, c2 \in CallIds :
        /\ c1 # c2
        /\ calls[c1].given /\ calls[c2].given
        /\ calls[c1].pc = "done" /\ calls[c2].pc = "done"
        /\ calls[c1].result # "not_found" /\ calls[c2].result # "not_found"
        /\ calls[c1].conv = calls[c2].conv
        /\ LET log == Log(calls[c1].conv)
           IN /\ Pos(log, "user", c1) < Pos(log, "user", c2)
              /\ Pos(log, "user", c2) < Pos(log, "agent", c1)

(***************************************************************************)
(* Properties of the cached, retrying client (SpecCache).                  *)
(***************************************************************************)
KeyOf(c) == _get_cache_key(tcalls[c].op, tcalls[c].params)

\* call c returns to its caller in this step
Returns(c) == tcalls[c].pc # "returned" /\ tcalls'[c].pc = "returned"

RECURSIVE Pow(_, _)
Pow(b, n) == IF n = 0 THEN 1 ELSE b * Pow(b, n - 1)

\* C5: a read call never returns a cache entry whose TTL has elapsed: if at
\* the return the entry under the call's key has age >= ttl, the value
\* returned is the one the provider gave in this very step.
C5_ExpiredEntryNeverReturned ==
    [][\A c \in ToolCallIds :
          (/\ Returns(c)
           /\ tcalls[c].op \in ReadOps
           /\ KeyOf(c) \in DOMAIN cache
           /\ now - cache[KeyOf(c)].time >= cache_ttl)
          => /\ ~tcalls'[c].from_cache
             /\ tcalls'[c].provider_outcomes =
                    Append(tcalls[c].provider_outcomes, "ok")
             /\ tcalls'[c].result = ProviderCall(tcalls[c].op, tcalls[c].params)]_vars

\* a read found an expired entry under its key and returned the provider's
\* fresh result
C5_Witness ==
    \E c \in ToolCallIds :
        /\ tcalls[c].pc = "returned"
        /\ tcalls[c].expired_seen
        /\ ~tcalls[c].from_cache

\* C6: a read call that runs while the entry an identical earlier call stored
\* is younger than the TTL is served from the cache: it returns the stored
\* result and the provider is not invoked for it.
C6_SecondCallServedFromCache ==
    [][\A c \in ToolCallIds :
          (/\ tcalls[c].pc = "ready" /\ tcalls'[c].pc # "ready"
           /\ tcalls[c].op \in ReadOps
           /\ ~MissingRequired(tcalls[c].op, tcalls[c].params)
           /\ KeyOf(c) \in DOMAIN cache
           /\ now - cache[KeyOf(c)].time < cache_ttl)
          => /\ tcalls'[c].pc = "returned"
             /\ tcalls'[c].result = cache[KeyOf(c)].value
             /\ tcalls'[c].provider_outcomes = tcalls[c].provider_outcomes]_vars

\* two identical reads, the provider invoked for the first only
C6_Witness ==
    \E c1, c2 \in ToolCallIds :
        /\ c1 < c2
        /\ tcalls[c1].pc = "returned" /\ tcalls[c2].pc = "returned"
        /\ tcalls[c1].op \in ReadOps
        /\ KeyOf(c1) = KeyOf(c2)
        /\ tcalls[c1].provider_outcomes = <<"ok">>
        /\ tcalls[c2].provider_outcomes = <<>>
        /\ tcalls[c2].from_cache
        /\ tcalls[c2].result = tcalls[c1].result

\* C7: a call whose provider raised on its first two invocations is not given
\* up, and when the third invocation succeeds the call has returned that
\* result, after exactly three runs of its body, and invokes nothing more.
C7_ThirdAttemptSucceeds ==
    \A c \in ToolCallIds :
        LET o == tcalls[c].provider_outcomes
        IN /\ o = <<"raise", "raise">> => tcalls[c].pc # "raised"
           /\ (Len(o) >= 3 /\ SubSeq(o, 1, 3) = <<"raise", "raise", "ok">>)
                 => /\ Len(o) = 3
                    /\ tcalls[c].pc = "returned"
                    /\ ~tcalls[c].from_cache
                    /\ tcalls[c].result.success = "true"
                    /\ tcalls[c].body_runs = 3

C7_Witness ==
    \E c \in ToolCallIds :
        /\ tcalls[c].provider_outcomes = <<"raise", "raise", "ok">>
        /\ tcalls[c].pc = "returned"

C9_CallerErrorNotRetried ==
    \A c \in ToolCallIds :
        (tcalls[c].pc # "idle" /\ MissingRequired(tcalls[c].op, tcalls[c].params))
            => /\ tcalls[c].body_runs <= 1
               /\ tcalls[c].pc # "sleeping"

\* C10: when update_lead_status for lead L returns successfully the cache
\* holds no entry that refers to L, and a read that returns a lead returns
\* the lead as the provider has it at that moment.
C10_NoStaleReadAfterUpdate ==
    [][\A c \in ToolCallIds :
          /\ (Returns(c) /\ tcalls[c].op = "update_lead_status"
                /\ tcalls'[c].result.success = "true")
               => \A k \in DOMAIN cache' :
                      cache'[k].value.lead_id # tcalls[c].params.lead_id
          /\ (Returns(c) /\ tcalls[c].op = "get_lead_info"
                /\ tcalls'[c].result.lead_id \in LeadIds)
               => tcalls'[c].result.status =
                      leads'[tcalls'[c].result.lead_id].status]_vars

(***************************************************************************)
(* Properties of the provider registry (SpecRegistry).                     *)
(***************************************************************************)
GetKey(c) == cache_key(gcalls[c].server_name, gcalls[c].simulate_latency)

\* the calls that returned an instance since the instances were last cleared
CurrentGets == {c \in GetCallIds : gcalls[c].pc = "returned" /\ gcalls[c].current}

\* C11: since the last clear at most one provider was constructed per
\* (server_name, simulate_latency) key, also when several calls for the key
\* were pending at its first access, and all calls for the key returned the
\* same instance, the one the registry holds.
C11_OneInstancePerKey ==
    \A c1, c2 \in CurrentGets :
        GetKey(c1) = GetKey(c2)
            => /\ gcalls[c1].result = gcalls[c2].result
               /\ GetKey(c1) \in DOMAIN _instances
               /\ _instances[GetKey(c1)] = gcalls[c1].result
               /\ (gcalls[c1].constructed /\ gcalls[c2].constructed) => c1 = c2

\* after a clear, a call constructed the provider anew while another call for
\* the same key was pending, and that call got the same instance
C11_Witness ==
    \E c0, c1, c2 \in GetCallIds :
        /\ gcalls[c0].pc = "returned" /\ ~gcalls[c0].current
        /\ gcalls[c0].constructed
        /\ c1 \in CurrentGets /\ c2 \in CurrentGets
        /\ gcalls[c1].constructed
        /\ c2 \in gcalls[c1].contenders
        /\ GetKey(c0) = GetKey(c1)
        /\ gcalls[c2].result = gcalls[c1].result
        /\ gcalls[c0].result # gcalls[c1].result

\* C21: get_server with a name outside server_map, the factory being
\* initialised, ends with ValueError, constructs nothing and leaves _instances
\* exactly as it was; no state has an entry under a key of an unknown name.
C21_UnknownNameFailsAndAddsNothing ==
    [][/\ \A c \in GetCallIds :
             (/\ gcalls[c].pc = "pending" /\ gcalls'[c].pc # "pending"
              /\ _settings
              /\ gcalls[c].server_name \notin server_map)
                 => /\ gcalls'[c].pc = "raised"
                    /\ gcalls'[c].error = "ValueError"
                    /\ gcalls'[c].result = NoInstance
                    /\ _instances' = _instances
                    /\ created' = created
       /\ \A k \in DOMAIN _instances' : k[1] \in server_map]_vars

\* a call with an unknown name failed while the registry held an instance
\* under another key, and still holds it
C21_Witness ==
    \E c1, c2 \in GetCallIds :
        /\ c1 < c2
        /\ c1 \in CurrentGets /\ gcalls[c1].constructed
        /\ gcalls[c2].pc = "raised" /\ gcalls[c2].error = "ValueError"
        /\ gcalls[c2].server_name \notin server_map
        /\ DOMAIN _instances = {GetKey(c1)}

(***************************************************************************)
(* Properties of the dispatcher (SpecDispatch).                            *)
(***************************************************************************)
DispatchDone(c) == dcalls[c].pc \in {"returned", "raised"}

\* C12: a call of a tool name that is not declared fails with the ValueError
\* of the name test, and neither a provider nor the wire has been called
\* for it.
C12_UnknownToolFailsBeforeAnyCall ==
    \A c \in DispatchCallIds :
        (dcalls[c].pc # "idle" /\ dcalls[c].tool_name \notin DOMAIN tools)
            => /\ dcalls[c].pc = "raised"
               /\ dcalls[c].error = "ValueError"
               /\ dcalls[c].direct_calls = 0
               /\ dcalls[c].wire_calls = 0
               /\ dcalls[c].wire_outcome = "none"

C12_Witness ==
    \E c \in DispatchCallIds :
        /\ dcalls[c].tool_name = "no_such_tool"
        /\ dcalls[c].pc = "raised"
        /\ dcalls[c].error = "ValueError"

\* C13: the provider held directly is called first and at most once; when it
\* returns, its result is the call's result and nothing is posted; when it
\* raises, the error does not reach the caller, exactly one request is posted
\* and its outcome is the call's outcome; with a provider held, a request is
\* posted only after the direct call raised.
C13_DirectFirstThenWire ==
    \A c \in DispatchCallIds :
        LET call == dcalls[c]
            held == /\ call.tool_name \in DOMAIN tools
                    /\ _get_server_name_from_url(tools[call.tool_name]) \in servers
        IN /\ call.direct_calls <= 1 /\ call.wire_calls <= 1
           /\ call.transport = "direct"
                 => /\ call.pc = "returned"
                    /\ call.wire_calls = 0
                    /\ call.direct_raised = "none"
                    /\ call.result =
                           ServerCall(_get_server_name_from_url(tools[call.tool_name]),
                                      call.tool_name, call.params).result
           /\ call.direct_raised # "none"
                 => /\ call.wire_calls = 1
                    /\ call.pc \in {"wire", "returned", "raised"}
                    /\ call.pc = "returned"
                          => call.transport = "wire" /\ call.wire_outcome = "200"
                    /\ call.pc = "raised"
                          => /\ call.error = "RuntimeError"
                             /\ call.wire_outcome \in {"500", "connect_error", "timeout"}
           /\ (held /\ call.wire_calls > 0) => call.direct_raised # "none"
           /\ (held /\ call.pc # "idle") => call.direct_calls = 1

\* one call was answered by the provider held directly, another fell back to
\* the wire after the provider raised and ended as the wire did
C13_Witness ==
    \E c1, c2 \in DispatchCallIds :
        /\ dcalls[c1].pc = "returned" /\ dcalls[c1].transport = "direct"
        /\ dcalls[c1].wire_calls = 0
        /\ dcalls[c2].direct_raised = "TypeError"
        /\ dcalls[c2].wire_calls = 1
        /\ dcalls[c2].pc = "raised"
        /\ dcalls[c2].wire_outcome = "timeout"

\* C22: a list_tools or discover_tools call for an endpoint never raises; the
\* provider held directly is asked first and, when it lists, its tools are the
\* result and no GET is sent; otherwise exactly one GET is sent, and when it
\* fails (connection, timeout, status, malformed body) the result is the
\* empty list.
C22_ListingDegradesToEmpty ==
    \A c \in ListCallIds :
        LET call == lcalls[c]
            held == _get_server_name_from_url(call.mcp_url) \in servers
        IN /\ call.pc # "raised" /\ call.error = "none"
           /\ call.wire_calls <= 1
           /\ call.pc # "idle" =>
                 /\ held <=> call.direct \in {"listed", "raised"}
                 /\ call.direct = "listed"
                       => /\ call.pc = "returned" /\ call.wire_calls = 0
                          /\ call.result # {}
                 /\ call.direct \in {"absent", "raised"} => call.wire_calls = 1
           /\ (call.wire_calls = 1 /\ call.wire_outcome \notin {"none", "answered"})
                 => call.pc = "returned" /\ call.result = {}

\* a listing whose held provider raised and whose GET timed out, and a
\* discovery without a held provider whose GET got a malformed body: both
\* returned the empty list
C22_Witness ==
    \E c1, c2 \in ListCallIds :
        /\ lcalls[c1].op = "list_tools" /\ lcalls[c1].direct = "raised"
        /\ lcalls[c1].wire_outcome = "timeout"
        /\ lcalls[c1].pc = "returned" /\ lcalls[c1].result = {}
        /\ lcalls[c2].op = "discover_tools"
        /\ lcalls[c2].wire_outcome \in {"malformed", "bad_status", "connect_error"}
        /\ lcalls[c2].pc = "returned" /\ lcalls[c2].result = {}

\* the least parameters an operation accepts, naming a record that exists
MinimalValid(tool_name, params) ==
    \/ tool_name = "get_lead_info" /\ params.lead_id \in LeadIds
    \/ tool_name = "get_product_details" /\ params.product_id = "maquinona_001"
    \/ tool_name = "retorna_preco" /\ params.product_id = "maquinona_001"

\* C19: a finished call of an operation its provider advertises, with minimal
\* valid parameters and without a failure of the connection, has returned a
\* result with success = true.
C19_AdvertisedOperationSucceeds ==
    \A c \in DispatchCallIds :
        LET call == dcalls[c]
        IN (/\ DispatchDone(c)
            /\ call.tool_name \in DOMAIN tools
            /\ call.tool_name \in list_tools(EndpointServer(tools[call.tool_name]))
            /\ MinimalValid(call.tool_name, call.params)
            /\ call.wire_outcome \notin {"connect_error", "timeout"})
           => /\ call.pc = "returned"
              /\ call.result.success = "true"

\* C20: every result a call returns, over either transport, has
\* success = false exactly if its error is set.
C20_SuccessFalseIffError ==
    \A c \in DispatchCallIds :
        dcalls[c].pc = "returned"
            => ((dcalls[c].result.success = "false")
                    <=> (dcalls[c].result.error # "none"))

(***************************************************************************)
(* Further properties of the conversation tracker.                         *)
(***************************************************************************)
\* call c ends in this step, with the result "ok" or "error"
Finishes(c) == calls[c].pc = "awaiting" /\ calls'[c].pc = "done"

\* C14: when a call returns without error, the conversation's stage and the
\* stage in the result are the table's image of the last node of the call's
\* trace, and faq for a node the table does not have or an empty trace,
\* whatever the stage was before.
C14_StageIsTableImage ==
    [][\A c \in CallIds, h \in Traces, st \in PipelineStatus :
          (ProcessMessageFinish(c, h, st) /\ calls'[c].result = "ok")
              => LET image == IF h = <<>> THEN "faq"
                              ELSE stage_mapping(h[Len(h)])
                 IN /\ conversations'[calls[c].conv].current_stage = image
                    /\ calls'[c].stage = image]_vars

\* a call moved its conversation from qualification to closing
C14_Witness ==
    \E c \in CallIds :
        /\ calls[c].pc = "done" /\ calls[c].result = "ok"
        /\ calls[c].old_stage = "qualification"
        /\ calls[c].stage = "closing"
        /\ conversations[calls[c].conv].current_stage = "closing"

\* C15: a call that changes its conversation's stage from a to b increments
\* the counter of a->b by one and leaves every other counter alone, a call
\* that leaves the stage where it is leaves all counters alone, as does every
\* other step; and conversations_total is the number of conversations.
C15_TransitionCountedOncePerChange ==
    [][/\ \A c \in CallIds :
             (Finishes(c) /\ calls'[c].result = "ok")
                 => LET a == conversations[calls[c].conv].current_stage
                        b == conversations'[calls[c].conv].current_stage
                    IN metrics'.stage_transitions =
                           IF a # b
                           THEN [metrics.stage_transitions EXCEPT ![<<a, b>>] = @ + 1]
                           ELSE metrics.stage_transitions
       /\ (\A c \in CallIds : ~(Finishes(c) /\ calls'[c].result = "ok"))
             => metrics'.stage_transitions = metrics.stage_transitions
       /\ metrics'.conversations_total = Cardinality(DOMAIN conversations')]_vars

\* C16: a call whose pipeline failed ends with the error result, its user
\* message is still in the log and the conversation's stage is what it was.
C16_PipelineFailureIsErrorResult ==
    [][\A c \in CallIds :
          (Finishes(c) /\ calls'[c].status = "failed")
              => /\ calls'[c].result = "error"
                 /\ Count(conversations'[calls[c].conv].messages, "user", c) >= 1
                 /\ conversations'[calls[c].conv].current_stage =
                        conversations[calls[c].conv].current_stage]_vars

\* C17: in every state the metrics view reports 0 for the average time of a
\* stage without samples and, when there is no conversation, 0 for every
\* stage's conversion percentage, for the abandonment rate and for the
\* sales-conversion rate.
C17_ZeroWhenNoDenominator ==
    LET view == get_conversion_metrics
    IN /\ \A s \in ConversationStage :
             metrics.time_by_stage[s] = <<>>
                 => /\ s \in DOMAIN view.average_time_by_stage
                    /\ view.average_time_by_stage[s] = 0
       /\ metrics.conversations_total = 0
             => /\ view.abandonment_rate = 0
                /\ view.sales_conversion_rate = 0
                /\ \A s \in ConversationStage :
                      /\ s \in DOMAIN view.conversion_rates_by_stage
                      /\ view.conversion_rates_by_stage[s] = 0

\* C18: every mutation of a conversation leaves updated_at greater than it
\* was: the append of a message when the clock has moved on since the last
\* update, and the changes of the stage, the active agent and the metadata
\* that follow the append of the reply.
C18_UpdatedAtStrictlyIncreases ==
    [][/\ \A id \in DOMAIN conversations :
             (/\ Len(conversations'[id].messages) > Len(conversations[id].messages)
              /\ now > conversations[id].updated_at)
                 => conversations'[id].updated_at > conversations[id].updated_at
       /\ \A c \in CallIds :
             (Finishes(c) /\ calls'[c].result = "ok")
                 => LET id == calls[c].conv
                        appended == add_message(conversations[id], "agent", c, "swarm")
                        after == conversations'[id]
                    IN (\/ after.current_stage # appended.current_stage
                        \/ after.active_agent # appended.active_agent
                        \/ after.metadata # appended.metadata)
                           => after.updated_at > appended.updated_at]_vars

\* the conversation b is the conversation a at a later time: created at the
\* same time, and with a's log as the beginning of its own
SameConversation(a, b) ==
    /\ b.created_at = a.created_at
    /\ IsPrefix(a.messages, b.messages)

C24_TransitionStartsAtCurrentStage ==
    [][\A c \in CallIds :
          Finishes(c)
              => \A t \in ConversationStage \X ConversationStage :
                     metrics'.stage_transitions[t] > metrics.stage_transitions[t]
                         => /\ t[1] = conversations[calls[c].conv].current_stage
                            /\ t[2] = conversations'[calls[c].conv].current_stage]_vars

(***************************************************************************)
(* Further properties of the cached clients (SpecMutate).                  *)
(***************************************************************************)
\* C25: a call of update_lead_status or track_event never returns from the
\* cache: it goes to the provider on every attempt that passes the check of
\* its parameters, and what it returns is what the provider gave in that
\* step; no step of such a call adds a cache entry, and no entry is stored
\* under the key of a mutating operation.
C25_MutatingCallsBypassCache ==
    [][/\ \A c \in ToolCallIds :
             tcalls[c].op \in MutatingOps
                 => /\ (tcalls[c].pc = "ready" /\ tcalls'[c].pc # "ready")
                          => tcalls'[c].pc = "in_provider"
                    /\ Returns(c)
                          => /\ tcalls[c].pc = "in_provider"
                             /\ ~tcalls'[c].from_cache
                             /\ tcalls'[c].provider_outcomes =
                                    Append(tcalls[c].provider_outcomes, "ok")
                             /\ tcalls'[c].result =
                                    ProviderCall(tcalls[c].op, tcalls[c].params)
                    /\ tcalls'[c] # tcalls[c]
                          => DOMAIN cache' \subseteq DOMAIN cache
       /\ \A k \in DOMAIN cache' : k[1] \notin MutatingOps]_vars

\* two identical mutating calls have both returned what the provider gave,
\* the second after a retry, with the cache enabled
C25_Witness ==
    \E c1, c2 \in ToolCallIds :
        /\ c1 # c2
        /\ tcalls[c1].op \in MutatingOps /\ tcalls[c2].op \in MutatingOps
        /\ tcalls[c1].pc = "returned" /\ tcalls[c2].pc = "returned"
        /\ KeyOf(c1) = KeyOf(c2)
        /\ tcalls[c1].provider_outcomes = <<"ok">>
        /\ tcalls[c2].provider_outcomes = <<"raise", "ok">>
        /\ cache_enabled

(***************************************************************************)
(* Further properties of the conversation tracker (SpecTracker).           *)
(***************************************************************************)
\* C26: a call that has got as far as its pipeline has its user message in
\* its conversation's log exactly once, whether it named the conversation or
\* created it.
C26_UserMessageAppendedOnce ==
    \A c \in CallIds :
        Started(c) => Count(Log(calls[c].conv), "user", c) = 1

\* C27: a call whose pipeline result has an empty trace (the result after a
\* swallowed failure) ends as a successful turn: the reply is appended, the
\* result is the normal one with the stage faq, and the conversation is at
\* faq; when the stage the call found at its start was another one, the
\* counter of the transition from that stage to faq goes up by one.
C27_EmptyTraceResetsToFaq ==
    [][\A c \in CallIds, st \in PipelineStatus :
          ProcessMessageFinish(c, <<>>, st)
              => LET id == calls[c].conv
                     old == calls[c].old_stage
                 IN /\ calls'[c].result = "ok"
                    /\ calls'[c].stage = "faq"
                    /\ conversations'[id].current_stage = "faq"
                    /\ Count(conversations'[id].messages, "agent", c) = 1
                    /\ old # "faq"
                          => metrics'.stage_transitions =
                                 [metrics.stage_transitions EXCEPT
                                     ![<<old, "faq">>] = @ + 1]
                    /\ old = "faq"
                          => metrics'.stage_transitions = metrics.stage_transitions]_vars

\* a call that found its conversation at closing got the empty trace: the
\* conversation is back at faq and closing->faq has been counted
C27_Witness ==
    \E c \in CallIds :
        /\ calls[c].pc = "done" /\ calls[c].status = "failed"
        /\ calls[c].result = "ok"
        /\ calls[c].old_stage = "closing"
        /\ conversations[calls[c].conv].current_stage = "faq"
        /\ metrics.stage_transitions[<<"closing", "faq">>] = 1

\* C28: the table maps no node to completed, so no conversation is ever at
\* the stage completed and no call returns it, completed_conversations is 0,
\* and the abandonment rate reported is 100 as soon as there is a
\* conversation.
C28_NeverCompleted ==
    /\ \A a \in NodeIds : stage_mapping(a) # "completed"
    /\ \A id \in DOMAIN conversations :
          conversations[id].current_stage # "completed"
    /\ \A c \in CallIds : calls[c].stage # "completed"
    /\ metrics.completed_conversations = 0
    /\ metrics.conversations_by_stage["completed"] = 0
    /\ metrics.conversations_total > 0
          => get_conversion_metrics.abandonment_rate = 100

\* a conversation's sale has been closed, and the abandonment rate is 100
C28_Witness ==
    /\ metrics.closed_sales >= 1
    /\ \E id \in DOMAIN conversations :
          /\ conversations[id].current_stage = "closing"
          /\ conversations[id].metadata.sale_closed
    /\ get_conversion_metrics.abandonment_rate = 100

(***************************************************************************)
(* Properties of the tracker with the clock (SpecTimed).                   *)
(***************************************************************************)
\* C29: every sample in time_by_stage is non-negative: a call's transition
\* time is not earlier than the entry time recorded for the stage it leaves.
C29_TimeSamplesNonNegative ==
    \A s \in ConversationStage :
        \A i \in 1..Len(metrics.time_by_stage[s]) :
            metrics.time_by_stage[s][i] >= 0

(***************************************************************************)
(* Properties of the cached client under failure results (SpecFailure).    *)
(***************************************************************************)
\* a result that reports a failure: an error, or success = false
IsFailure(result) == result.error # "none" \/ result.success = "false"

\* C30: a read whose provider returns a failure result returns it at once,
\* without a sleep or a further run of its body, and with the cache enabled
\* the result is stored under the call's key with the time of the call; an
\* identical read that finds the stored failure younger than the TTL returns
\* it without a call to the provider; and a stored failure leaves the cache
\* only by clear_cache or by an update_lead_status that names its lead, and
\* is replaced only by what the provider gives a read of the same key.
C30_FailureResultCachedNotRetried ==
    [][/\ \A c \in ToolCallIds :
             (/\ tcalls[c].pc = "in_provider" /\ tcalls[c].op \in ReadOps
              /\ Append(tcalls[c].provider_outcomes, "ok") = tcalls'[c].provider_outcomes
              /\ IsFailure(ProviderCall(tcalls[c].op, tcalls[c].params)))
                 => /\ tcalls'[c].pc = "returned"
                    /\ tcalls'[c].body_runs = tcalls[c].body_runs
                    /\ tcalls'[c].result = ProviderCall(tcalls[c].op, tcalls[c].params)
                    /\ cache_enabled
                          => /\ KeyOf(c) \in DOMAIN cache'
                             /\ cache'[KeyOf(c)] =
                                    [value |-> tcalls'[c].result, time |-> now]
       /\ \A c \in ToolCallIds :
             (/\ tcalls[c].pc = "ready" /\ tcalls'[c].pc # "ready"
              /\ tcalls[c].op \in ReadOps
              /\ cache_enabled
              /\ KeyOf(c) \in DOMAIN cache
              /\ IsFailure(cache[KeyOf(c)].value)
              /\ now - cache[KeyOf(c)].time < cache_ttl)
                 => /\ tcalls'[c].pc = "returned"
                    /\ tcalls'[c].result = cache[KeyOf(c)].value
                    /\ tcalls'[c].provider_outcomes = tcalls[c].provider_outcomes
       /\ \A k \in DOMAIN cache :
             IsFailure(cache[k].value)
                 => \/ k \in DOMAIN cache' /\ cache'[k] = cache[k]
                    \/ cache' = <<>>
                    \/ \E c \in ToolCallIds :
                          /\ Returns(c)
                          /\ tcalls[c].op = "update_lead_status"
                          /\ KeyNamesLead(k, tcalls[c].params.lead_id)
                          /\ k \notin DOMAIN cache'
                    \/ \E c \in ToolCallIds :
                          /\ Returns(c) /\ ~tcalls'[c].from_cache
                          /\ tcalls[c].op \in ReadOps /\ KeyOf(c) = k
                          /\ cache'[k] = [value |-> tcalls'[c].result,
                                           time |-> now]]_vars

\* a read of an unknown lead got "Lead not found" from the provider on its
\* first attempt, and a later identical read returned it from the cache
C30_Witness ==
    \E c1, c2 \in ToolCallIds :
        /\ c1 < c2
        /\ tcalls[c1].op = "get_lead_info" /\ KeyOf(c1) = KeyOf(c2)
        /\ tcalls[c1].pc = "returned" /\ tcalls[c2].pc = "returned"
        /\ tcalls[c1].result.error = "Lead not found"
        /\ tcalls[c1].provider_outcomes = <<"ok">> /\ tcalls[c1].body_runs = 1
        /\ tcalls[c2].from_cache /\ tcalls[c2].provider_outcomes = <<>>
        /\ tcalls[c2].result = tcalls[c1].result
        /\ now > 0

====
